---- MODULE Spec2Model ----
(***************************************************************************)
(* Model of cutgeneratingfunctionology/spam/                               *)
(* basic_semialgebraic_linear_system.py:                                   *)
(* BasicSemialgebraicSet_polyhedral_linear_system, a store of linear       *)
(* equalities, strict and non-strict inequalities over a polynomial ring,  *)
(* with one-variable elimination (substitution or Fourier-Motzkin) and     *)
(* coordinate projection.                                                  *)
(*                                                                         *)
(* Field elements are exact rationals <<n, d>> in lowest terms with d > 0. *)
(* A polynomial of degree <= 1 is a record                                 *)
(*   [parent, nonlin, coef, const]                                         *)
(* coef[i+1] being the coefficient of generator i of the ring.  parent is  *)
(* "ring" for an element of the store's poly_ring, "other" for an element  *)
(* of another parent that coerces into it (base ring, sub-ring), "alien"   *)
(* for one that does not.  nonlin marks an input of degree > 1.            *)
(* A Python collection is a record [kind, elems], kind "set" or "dict":    *)
(* the constructor rebinds two of its collections to the literal {}, which *)
(* is a dict.                                                              *)
(***************************************************************************)
EXTENDS Integers, Sequences, FiniteSets, TLC

\* ---------------------------------------------------------------- bounds
\* number of generators of the ring of the stores one_step_elimination is
\* checked on
ElimVars == 2
\* constraints of such a store
MaxCons == 3
\* number of generators of the ring of the stores coordinate_projection is
\* checked on, and the length of the list of coordinates
ProjVars == 3
MaxTargets == 2
\* calls on the stores after the construction, and add_* calls among them
MaxCalls == 2
MaxAdds == 1
\* assignments checked have integer coordinates in -XMax..XMax
XMax == 2

\* ------------------------------------------------------- rational numbers
Abs(a) == IF a < 0 THEN -a ELSE a

RECURSIVE GCD(_, _)
GCD(a, b) == IF b = 0 THEN a ELSE GCD(b, a % b)

QNorm(n, d) ==
    LET g == GCD(Abs(n), Abs(d))
        s == IF d < 0 THEN -1 ELSE 1
    IN  <<(s * n) \div g, (s * d) \div g>>

Q0 == <<0, 1>>
Q1 == <<1, 1>>
QInt(n) == <<n, 1>>
QNeg(a) == <<-a[1], a[2]>>
QAdd(a, b) == QNorm(a[1] * b[2] + b[1] * a[2], a[2] * b[2])
QSub(a, b) == QAdd(a, QNeg(b))
QMul(a, b) == QNorm(a[1] * b[1], a[2] * b[2])
QDiv(a, b) == QNorm(a[1] * b[2], a[2] * b[1])
QLt(a, b) == a[1] * b[2] < b[1] * a[2]
QLe(a, b) == a[1] * b[2] <= b[1] * a[2]

\* ------------------------------------------------------------ polynomials
ZeroCoef(n) == [i \in 1..n |-> Q0]

\* poly_ring(c): the constant c as an element of the ring with n generators
RingConst(n, c) ==
    [parent |-> "ring", nonlin |-> FALSE, coef |-> ZeroCoef(n), const |-> c]

\* poly_ring.gens()[i]
Gen(n, i) ==
    [parent |-> "ring", nonlin |-> FALSE,
     coef |-> [j \in 1..n |-> IF j = i + 1 THEN Q1 ELSE Q0], const |-> Q0]

PAdd(p, q) ==
    [parent |-> "ring", nonlin |-> FALSE,
     coef |-> [j \in 1..Len(p.coef) |-> QAdd(p.coef[j], q.coef[j])],
     const |-> QAdd(p.const, q.const)]

PScale(p, c) ==
    [parent |-> "ring", nonlin |-> FALSE,
     coef |-> [j \in 1..Len(p.coef) |-> QMul(p.coef[j], c)],
     const |-> QMul(p.const, c)]

PNeg(p) == PScale(p, QInt(-1))
PSub(p, q) == PAdd(p, PNeg(q))

\* e.monomial_coefficient(gens[i])
monomial_coefficient(p, i) == p.coef[i + 1]

IsConstant(p) == \A j \in 1..Len(p.coef) : p.coef[j] = Q0

\* e.degree()
degree(p) ==
    IF p.nonlin THEN 2
    ELSE IF ~IsConstant(p) THEN 1
    ELSE IF p.const # Q0 THEN 0 ELSE -1

\* poly_ring(lhs): coercion of an element of another parent into the ring
Coerce(p) == [p EXCEPT !.parent = "ring"]

\* ------------------------------------------------------ Python collections
PySet(s) == [kind |-> "set", elems |-> s]
PyDict == [kind |-> "dict", elems |-> {}]

\* the orders in which a Python set may be iterated
Orders(s) ==
    {f \in [1..Cardinality(s) -> s] : \A i, j \in 1..Cardinality(s) : f[i] = f[j] => i = j}

\* one iteration order (used where the loop body does not depend on it)
RECURSIVE SomeOrder(_)
SomeOrder(s) ==
    IF s = {} THEN <<>> ELSE LET e == CHOOSE x \in s : TRUE IN <<e>> \o SomeOrder(s \ {e})

\* ------------------------------------------------------------ constructor
\* A store as a value: the ring's generator names, the ambient dimension and
\* the three collections.
StoreVal(gens, eq, lt, le) ==
    [gens |-> gens, ambient_dim |-> Len(gens), eq |-> eq, lt |-> lt, le |-> le]

\* lines 98-100, 106-108, 114-116: "replace with an invalid inequality"
Collapse(t, n) ==
    [t EXCEPT !.le = PySet({RingConst(n, Q1)}), !.eq = PyDict, !.lt = PyDict]

\* temp.remove(e) on a collection: AttributeError on a dict, KeyError when absent
PyRemove(t, field, e) ==
    LET c == t[field] IN
    IF c.kind # "set" THEN [t EXCEPT !.err = "AttributeError"]
    ELSE IF e \notin c.elems THEN [t EXCEPT !.err = "KeyError"]
    ELSE [t EXCEPT ![field] = PySet(c.elems \ {e})]

\* a normalization that evaluates every constant input, whatever its parent
NormalizeStep_constants(t, field, e, n) ==
    IF t.err # "none" \/ ~IsConstant(e) THEN t
    ELSE LET violated ==
                 CASE field = "eq" -> e.const # Q0
                   [] field = "lt" -> QLe(Q0, e.const)
                   [] OTHER        -> QLt(Q0, e.const)
         IN  IF violated THEN Collapse(t, n) ELSE PyRemove(t, field, e)

\* body of the loops of lines 94-118 for one element e of kind field;
\* violated is the comparison of base_ring(e) with 0 that collapses the store
NormalizeStep(t, field, e, n) ==
    IF t.err # "none" \/ e.parent = "ring" THEN t
    ELSE IF ~IsConstant(e) THEN [t EXCEPT !.err = "TypeError"]
    ELSE LET violated ==
                 CASE field = "eq" -> e.const # Q0
                   [] field = "lt" -> QLe(Q0, e.const)
                   [] OTHER        -> QLt(Q0, e.const)
         IN  IF violated THEN Collapse(t, n) ELSE PyRemove(t, field, e)

RECURSIVE NormalizeLoop(_, _, _, _)
NormalizeLoop(t, field, order, n) ==
    IF order = <<>> THEN t
    ELSE NormalizeLoop(NormalizeStep(t, field, Head(order), n), field, Tail(order), n)

\* __init__(poly_ring=<ring over gens>, eq, lt, le), the three sets being
\* iterated in the orders oe, ol, ole.  Result: [err, store].
BSA_init(gens, eq, lt, le, oe, ol, ole) ==
    LET n == Len(gens)
        polys == eq \cup lt \cup le
        t0 == [err |-> "none", eq |-> PySet(eq), lt |-> PySet(lt), le |-> PySet(le)]
        t1 == NormalizeLoop(t0, "eq", oe, n)
        t2 == NormalizeLoop(t1, "lt", ol, n)
        t3 == NormalizeLoop(t2, "le", ole, n)
        none == StoreVal(gens, PySet({}), PySet({}), PySet({}))
    IN  IF \E e \in polys : degree(e) > 1
            THEN [err |-> "ValueError:degree", store |-> none]
        ELSE IF \E e \in polys : e.parent = "alien"
            THEN [err |-> "TypeError", store |-> none]
        ELSE IF polys # {} /\ \A e \in polys : e.parent # "ring"
            THEN [err |-> "ValueError:poly_ring", store |-> none]
        ELSE [err |-> t3.err, store |-> StoreVal(gens, t3.eq, t3.lt, t3.le)]

\* every outcome of the constructor over the iteration orders of its sets
BSA_init_outcomes(gens, eq, lt, le) ==
    {BSA_init(gens, eq, lt, le, oe, ol, ole) :
        oe \in Orders(eq), ol \in Orders(lt), ole \in Orders(le)}

\* --------------------------------------------------------- add_* on values
Ops == {"lt", "gt", "eq", "le", "ge"}

PyAdd(c, e) ==
    IF c.kind = "set" THEN [err |-> "none", coll |-> PySet(c.elems \cup {e})]
    ELSE [err |-> "AttributeError", coll |-> c]

\* an add that stores lhs itself for every relation
add_polynomial_constraint_unsigned(sv, lhs, op) ==
    LET p == Coerce(lhs)
        field == IF op \in {"lt", "gt"} THEN "lt"
                 ELSE IF op = "eq" THEN "eq" ELSE "le"
        a == PyAdd(sv[field], p)
    IN  IF lhs.parent = "alien" THEN [err |-> "TypeError", store |-> sv]
        ELSE IF degree(p) > 1 THEN [err |-> "ValueError:degree", store |-> sv]
        ELSE IF op \notin Ops THEN [err |-> "ValueError:operator", store |-> sv]
        ELSE [err |-> a.err, store |-> [sv EXCEPT ![field] = a.coll]]

\* add_polynomial_constraint(lhs, op) on the store value sv: [err, store]
add_polynomial_constraint(sv, lhs, op) ==
    LET p == Coerce(lhs)
        field == IF op \in {"lt", "gt"} THEN "lt"
                 ELSE IF op = "eq" THEN "eq" ELSE "le"
        q == IF op \in {"gt", "ge"} THEN PNeg(p) ELSE p
        a == PyAdd(sv[field], q)
    IN  IF lhs.parent = "alien" THEN [err |-> "TypeError", store |-> sv]
        ELSE IF degree(p) > 1 THEN [err |-> "ValueError:degree", store |-> sv]
        ELSE IF op \notin Ops THEN [err |-> "ValueError:operator", store |-> sv]
        ELSE [err |-> a.err, store |-> [sv EXCEPT ![field] = a.coll]]

\* sum(lhs_vector[i]*gens[i]) + cst
LinearForm(vec, cst) ==
    [parent |-> "ring", nonlin |-> FALSE, coef |-> vec, const |-> cst]

\* add_linear_constraint(lhs_vector, cst, op)
add_linear_constraint(sv, vec, cst, op) ==
    IF Len(vec) # sv.ambient_dim THEN [err |-> "ValueError:length", store |-> sv]
    ELSE add_polynomial_constraint(sv, LinearForm(vec, cst), op)

\* ------------------------------------------------------ one_step_elimination
\* a combination that adds where the code subtracts
FMCombine_added(l, u, i) ==
    PAdd(PScale(l, monomial_coefficient(u, i)), PScale(u, monomial_coefficient(l, i)))

\* lines 172, 177, 180, 183: l*u.monomial_coefficient(v) - u*l.monomial_coefficient(v)
FMCombine(l, u, i) ==
    PSub(PScale(l, monomial_coefficient(u, i)), PScale(u, monomial_coefficient(l, i)))

\* a solution that forgets to divide by the coefficient
SubFrom_undivided(e, i) == PSub(Gen(Len(e.coef), i), e)

\* line 145: sub = coordinate - e/e.monomial_coefficient(coordinate)
SubFrom(e, i) ==
    PSub(Gen(Len(e.coef), i), PScale(e, QDiv(Q1, monomial_coefficient(e, i))))

\* lines 186, 188, 190: p + p.monomial_coefficient(coordinate)*(sub - coordinate)
Substitute(p, sub, i) ==
    PAdd(p, PScale(PSub(sub, Gen(Len(p.coef), i)), monomial_coefficient(p, i)))

\* lines 147-183: the new (eq, lt, le) when no equality has the coordinate
FourierMotzkin(self, i) ==
    LET c(p) == monomial_coefficient(p, i)
        lt_upper == {p \in self.lt.elems : QLt(Q0, c(p))}
        lt_lower == {p \in self.lt.elems : QLt(c(p), Q0)}
        le_upper == {p \in self.le.elems : QLt(Q0, c(p))}
        le_lower == {p \in self.le.elems : QLt(c(p), Q0)}
    IN  [eq |-> self.eq.elems,
         lt |-> {p \in self.lt.elems : c(p) = Q0}
                \cup {FMCombine(l, u, i) : l \in le_lower, u \in lt_upper}
                \cup {FMCombine(l, u, i) : l \in lt_lower, u \in le_upper}
                \cup {FMCombine(l, u, i) : l \in lt_lower, u \in lt_upper},
         le |-> {p \in self.le.elems : c(p) = Q0}
                \cup {FMCombine(l, u, i) : l \in le_lower, u \in le_upper}]

\* lines 184-190: the new (eq, lt, le) when the equality e gives sub
Substitution(self, e, i) ==
    LET sub == SubFrom(e, i) IN
    [eq |-> {Substitute(p, sub, i) : p \in self.eq.elems},
     lt |-> {Substitute(p, sub, i) : p \in self.lt.elems},
     le |-> {Substitute(p, sub, i) : p \in self.le.elems}]

\* line 132: the generator names without the eliminated one
variables_names(gens, i) ==
    [j \in 1..(Len(gens) - 1) |-> IF j <= i THEN gens[j] ELSE gens[j + 1]]

\* p(polynomial_map), polynomial_map being the generators of the new ring with
\* 0 inserted at coordinate_index (lines 135-136)
ApplyMap(p, i) ==
    [parent |-> "ring", nonlin |-> FALSE,
     coef |-> [j \in 1..(Len(p.coef) - 1) |-> IF j <= i THEN p.coef[j] ELSE p.coef[j + 1]],
     const |-> p.const]

\* bsa.section(polynomial_map, bsa_class='linear_system', poly_ring=new_poly_ring):
\* a new store over the new ring holding the images of bsa's constraints,
\* built as at construction
section(bsa, i) ==
    LET eq == {ApplyMap(p, i) : p \in bsa.eq.elems}
        lt == {ApplyMap(p, i) : p \in bsa.lt.elems}
        le == {ApplyMap(p, i) : p \in bsa.le.elems}
    IN  BSA_init(variables_names(bsa.gens, i), eq, lt, le,
                 SomeOrder(eq), SomeOrder(lt), SomeOrder(le)).store

NoPoly == [parent |-> "none", nonlin |-> FALSE, coef |-> <<>>, const |-> Q0]

\* lines 143-146: the equalities the scan of self._eq may stop at
Pivots(self, i) == {e \in self.eq.elems : monomial_coefficient(e, i) # Q0}

\* one_step_elimination(coordinate_index) with the scan of line 143 stopping
\* at the equality e (NoPoly when sub stays None): [err, pivot, bsa, res]
OneStep(self, i, e) ==
    LET new == IF e = NoPoly THEN FourierMotzkin(self, i) ELSE Substitution(self, e, i)
        \* line 192: every constraint passed is an element of self._poly_ring,
        \* so the constructor's loops do not depend on the iteration order
        bsa == BSA_init(self.gens, new.eq, new.lt, new.le,
                        SomeOrder(new.eq), SomeOrder(new.lt), SomeOrder(new.le)).store
    IN  [err |-> "none", pivot |-> e, bsa |-> bsa, res |-> section(bsa, i)]

\* every outcome of one_step_elimination(coordinate_index)
one_step_elimination(self, i) ==
    IF i >= Len(self.gens)
        THEN {[err |-> "ValueError:index", pivot |-> NoPoly, bsa |-> self, res |-> self]}
    ELSE IF Pivots(self, i) = {} THEN {OneStep(self, i, NoPoly)}
    ELSE {OneStep(self, i, e) : e \in Pivots(self, i)}

\* ----------------------------------------------------- coordinate_projection
\* gens.index(c), 0-based; -1 when c is no generator
IndexOf(gens, c) ==
    IF \E j \in 1..Len(gens) : gens[j] = c
    THEN (CHOOSE j \in 1..Len(gens) : gens[j] = c /\ \A k \in 1..(j - 1) : gens[k] # c) - 1
    ELSE -1

\* positions left as resolved against the original ring
update_indices_stale(pos, i, coordinate_index) == pos

\* lines 210-212: the positions after step i removed coordinate_index
update_indices(pos, i, coordinate_index) ==
    [j \in 1..Len(pos) |->
        IF j > i /\ pos[j] > coordinate_index THEN pos[j] - 1 ELSE pos[j]]

\* lines 206-213 from step i on; trace records, per step, the index passed
\* to one_step_elimination and the generators of the store it was called on
RECURSIVE ProjectionLoop(_, _, _, _)
ProjectionLoop(res, pos, i, trace) ==
    IF i > Len(pos) THEN {[err |-> "none", res |-> res, trace |-> trace]}
    ELSE LET ci == pos[i]
             tr == Append(trace, [index |-> ci, gens |-> res.gens])
         IN  UNION {IF o.err # "none"
                        THEN {[err |-> o.err, res |-> res, trace |-> tr]}
                        ELSE ProjectionLoop(o.res, update_indices(pos, i, ci), i + 1, tr) :
                    o \in one_step_elimination(res, ci)}

\* every outcome of coordinate_projection(coordinates): [err, res, trace]
coordinate_projection(self, coordinates) ==
    IF \E k \in 1..Len(coordinates) : IndexOf(self.gens, coordinates[k]) = -1
        THEN {[err |-> "ValueError:coordinate", res |-> self, trace |-> <<>>]}
    ELSE ProjectionLoop(self,
                        [k \in 1..Len(coordinates) |-> IndexOf(self.gens, coordinates[k])],
                        1, <<>>)

\* ------------------------------------------------------------------ state
\* heap: the Python collection objects, by identity.  S: the store the caller
\* built; R: the store the last elimination or projection returned.  Each is a
\* reference record [live, gens, ambient_dim, eq, lt, le, steps] whose eq, lt, le
\* are heap identities and whose steps counts the eliminations that produced the
\* store.  err: the exception the last call raised ("none" if it
\* returned).  last: the last call, its arguments, and the values of the two
\* stores before it.  ncalls, nadds: the number of calls, and of add_* calls among
\* them, since the construction.
VARIABLES heap, S, R, err, last, ncalls, nadds
vars == <<heap, S, R, err, last, ncalls, nadds>>

Ids == 1..6
NoRef ==
    [live |-> FALSE, gens |-> <<>>, ambient_dim |-> 0, eq |-> 1, lt |-> 2, le |-> 3,
     steps |-> 0]
NoVal == StoreVal(<<>>, PySet({}), PySet({}), PySet({}))

\* the value of the store a reference denotes
Deref(h, ref) ==
    IF ref.live
    THEN [gens |-> ref.gens, ambient_dim |-> ref.ambient_dim,
          eq |-> h[ref.eq], lt |-> h[ref.lt], le |-> h[ref.le]]
    ELSE NoVal

\* an instance that takes over the collection objects of the store it was
\* computed from
NewInstance_shared(h, slot, sv) ==
    [heap |-> [id \in Ids |-> IF id = 1 THEN sv.eq
                              ELSE IF id = 2 THEN sv.lt
                              ELSE IF id = 3 THEN sv.le ELSE h[id]],
     ref |-> [live |-> TRUE, gens |-> sv.gens, ambient_dim |-> sv.ambient_dim,
              eq |-> 1, lt |-> 2, le |-> 3, steps |-> 0]]

\* lines 90-92, 119-121: a new instance owns three new collection objects
\* (set(eq).copy(), ...), here the objects slot+1..slot+3
NewInstance(h, slot, sv) ==
    [heap |-> [id \in Ids |-> IF id = slot + 1 THEN sv.eq
                              ELSE IF id = slot + 2 THEN sv.lt
                              ELSE IF id = slot + 3 THEN sv.le ELSE h[id]],
     ref |-> [live |-> TRUE, gens |-> sv.gens, ambient_dim |-> sv.ambient_dim,
              eq |-> slot + 1, lt |-> slot + 2, le |-> slot + 3, steps |-> 0]]

\* lines 263-271: self._lt.add(...), ... mutate the store's own objects
Mutate(h, ref, sv) ==
    [id \in Ids |-> IF id = ref.eq THEN sv.eq
                    ELSE IF id = ref.lt THEN sv.lt
                    ELSE IF id = ref.le THEN sv.le ELSE h[id]]

NoCall ==
    [op |-> "none", tgt |-> "-", pre |-> NoVal, other |-> NoVal,
     ins |-> [eq |-> {}, lt |-> {}, le |-> {}],
     lhs |-> NoPoly, rel |-> "-", vec |-> <<>>, cst |-> Q0,
     idx |-> -1, coords |-> <<>>, pivot |-> NoPoly, bsa |-> NoVal, trace |-> <<>>]

Ref(tgt) == IF tgt = "S" THEN S ELSE R
Other(tgt) == IF tgt = "S" THEN R ELSE S

\* ---------------------------------------------------------------- actions
\* S = BasicSemialgebraicSet_polyhedral_linear_system(poly_ring, eq, lt, le)
Construct(gens, eq, lt, le) ==
    /\ ~S.live /\ last.op = "none"
    /\ \E o \in BSA_init_outcomes(gens, eq, lt, le) :
          LET n == NewInstance(heap, 0, o.store) IN
          /\ err' = o.err
          /\ heap' = IF o.err = "none" THEN n.heap ELSE heap
          /\ S' = IF o.err = "none" THEN n.ref ELSE S
    /\ last' = [NoCall EXCEPT !.op = "init", !.tgt = "S",
                              !.ins = [eq |-> eq, lt |-> lt, le |-> le]]
    /\ UNCHANGED <<R, ncalls, nadds>>

\* tgt.add_polynomial_constraint(lhs, op)
AddPolynomialConstraint(tgt, lhs, op) ==
    /\ Ref(tgt).live
    /\ nadds < MaxAdds /\ ncalls < MaxCalls
    /\ LET o == add_polynomial_constraint(Deref(heap, Ref(tgt)), lhs, op) IN
          /\ err' = o.err
          /\ heap' = Mutate(heap, Ref(tgt), o.store)
    /\ last' = [NoCall EXCEPT !.op = "add_polynomial", !.tgt = tgt,
                              !.pre = Deref(heap, Ref(tgt)),
                              !.other = Deref(heap, Other(tgt)),
                              !.lhs = lhs, !.rel = op]
    /\ nadds' = nadds + 1 /\ ncalls' = ncalls + 1
    /\ UNCHANGED <<S, R>>

\* tgt.add_linear_constraint(lhs_vector, cst, op)
AddLinearConstraint(tgt, vec, cst, op) ==
    /\ Ref(tgt).live
    /\ nadds < MaxAdds /\ ncalls < MaxCalls
    /\ LET o == add_linear_constraint(Deref(heap, Ref(tgt)), vec, cst, op) IN
          /\ err' = o.err
          /\ heap' = Mutate(heap, Ref(tgt), o.store)
    /\ last' = [NoCall EXCEPT !.op = "add_linear", !.tgt = tgt,
                              !.pre = Deref(heap, Ref(tgt)),
                              !.other = Deref(heap, Other(tgt)),
                              !.vec = vec, !.cst = cst, !.rel = op]
    /\ nadds' = nadds + 1 /\ ncalls' = ncalls + 1
    /\ UNCHANGED <<S, R>>

\* R = tgt.one_step_elimination(coordinate_index)
OneStepElimination(tgt, coordinate_index) ==
    /\ Ref(tgt).live
    /\ ncalls < MaxCalls
    /\ \E o \in one_step_elimination(Deref(heap, Ref(tgt)), coordinate_index) :
          LET n == NewInstance(heap, 3, o.res) IN
          /\ err' = o.err
          /\ heap' = IF o.err = "none" THEN n.heap ELSE heap
          /\ R' = IF o.err = "none" THEN [n.ref EXCEPT !.steps = Ref(tgt).steps + 1] ELSE R
          /\ last' = [NoCall EXCEPT !.op = "one_step_elimination", !.tgt = tgt,
                                    !.pre = Deref(heap, Ref(tgt)),
                                    !.other = Deref(heap, Other(tgt)),
                                    !.idx = coordinate_index,
                                    !.pivot = o.pivot, !.bsa = o.bsa]
    /\ ncalls' = ncalls + 1
    /\ UNCHANGED <<S, nadds>>

\* R = S.coordinate_projection(coordinates)
CoordinateProjection(coordinates) ==
    /\ S.live
    /\ ncalls < MaxCalls
    /\ \E o \in coordinate_projection(Deref(heap, S), coordinates) :
          LET n == NewInstance(heap, 3, o.res) IN
          /\ err' = o.err
          \* with no coordinates the call returns self itself
          /\ heap' = IF o.err = "none" /\ coordinates # <<>> THEN n.heap ELSE heap
          /\ R' = IF o.err # "none" THEN R
                  ELSE IF coordinates = <<>> THEN S
                  ELSE [n.ref EXCEPT !.steps = Len(coordinates)]
          /\ last' = [NoCall EXCEPT !.op = "coordinate_projection", !.tgt = "S",
                                    !.pre = Deref(heap, S),
                                    !.other = Deref(heap, R),
                                    !.coords = coordinates, !.trace = o.trace]
    /\ ncalls' = ncalls + 1
    /\ UNCHANGED <<S, nadds>>

\* ------------------------------------------------- the region of a store
RECURSIVE Dot(_, _, _)
Dot(coef, x, j) ==
    IF j > Len(coef) THEN Q0 ELSE QAdd(QMul(coef[j], x[j]), Dot(coef, x, j + 1))

\* the value of p at the point x
Eval(p, x) == QAdd(p.const, Dot(p.coef, x, 1))

\* x satisfies every equality, strict and non-strict inequality of sv
Sat(sv, x) ==
    /\ \A p \in sv.eq.elems : Eval(p, x) = Q0
    /\ \A p \in sv.lt.elems : QLt(Eval(p, x), Q0)
    /\ \A p \in sv.le.elems : QLe(Eval(p, x), Q0)

Assignments(n) == [1..n -> {QInt(k) : k \in (-XMax)..XMax}]

\* x with the value v inserted as coordinate i (0-based)
InsertAt(x, i, v) ==
    [j \in 1..(Len(x) + 1) |-> IF j <= i THEN x[j] ELSE IF j = i + 1 THEN v ELSE x[j - 1]]

Constraints(sv) == sv.eq.elems \cup sv.lt.elems \cup sv.le.elems

\* the value of coordinate i at which p vanishes, the others being x
RootAt(p, i, x) ==
    QNeg(QDiv(Eval(p, InsertAt(x, i, Q0)), monomial_coefficient(p, i)))

\* For fixed x every constraint bounds coordinate i by RootAt or not at all, so
\* the values of coordinate i that satisfy sv form an interval whose end points
\* are among these roots.  A non-empty interval contains one of its end points,
\* the mid point of its two end points, an end point +-1, or 0.
Candidates(sv, i, x) ==
    LET roots == {RootAt(p, i, x) :
                    p \in {q \in Constraints(sv) : monomial_coefficient(q, i) # Q0}}
    IN  {Q0} \cup roots
        \cup {QAdd(r, Q1) : r \in roots} \cup {QSub(r, Q1) : r \in roots}
        \cup {QDiv(QAdd(r, t), QInt(2)) : r \in roots, t \in roots}

\* there is a value v of coordinate i such that (x, v) satisfies sv
ExistsV(sv, i, x) == \E v \in Candidates(sv, i, x) : Sat(sv, InsertAt(x, i, v))

\* --------------------------------------- specification: one_step_elimination
RingPoly(f, k) ==
    [parent |-> "ring", nonlin |-> FALSE,
     coef |-> [j \in DOMAIN f |-> QInt(f[j])], const |-> QInt(k)]

ElimGens == [j \in 1..ElimVars |-> j - 1]
ElimPool == {RingPoly(f, k) : f \in [1..ElimVars -> {-1, 0, 2}], k \in {0, 1}}
\* the subsets of pool with at most one, at most two elements
UpTo1(pool) == {{}} \cup {{a} : a \in pool}
UpTo2(pool) == UpTo1(pool) \cup {{a, b} : a \in pool, b \in pool}

InitElim ==
    /\ \E eq \in UpTo2(ElimPool), lt \in UpTo1(ElimPool), le \in UpTo2(ElimPool) :
          /\ Cardinality(eq) + Cardinality(lt) + Cardinality(le) <= MaxCons
          /\ LET n == NewInstance([id \in Ids |-> PySet({})], 0,
                                  BSA_init(ElimGens, eq, lt, le, SomeOrder(eq),
                                           SomeOrder(lt), SomeOrder(le)).store)
             IN  heap = n.heap /\ S = n.ref
    /\ R = NoRef
    /\ err = "none"
    /\ last = NoCall
    /\ ncalls = 0 /\ nadds = 0

\* one call per store drawn
NextElim == \E i \in 0..(ElimVars - 1) : last.op = "none" /\ OneStepElimination("S", i)

SpecElim == InitElim /\ [][NextElim]_vars

\* C1: in the Fourier-Motzkin case of one_step_elimination (no equality has a
\* nonzero coefficient on the eliminated coordinate) an assignment x to the
\* remaining coordinates satisfies the returned store iff some value v of the
\* eliminated coordinate makes (x, v) satisfy the original store.
C1_FourierMotzkinProjection ==
    (last.op = "one_step_elimination" /\ err = "none" /\ last.pivot = NoPoly) =>
        \A x \in Assignments(Len(R.gens)) :
            Sat(Deref(heap, R), x) <=> ExistsV(last.pre, last.idx, x)

\* the assignments to the generators of sv, among those checked, in its region
Region(sv) == {x \in Assignments(Len(sv.gens)) : Sat(sv, x)}

C1_Witness ==
    /\ last.op = "one_step_elimination" /\ err = "none" /\ last.pivot = NoPoly
    /\ \E l \in last.pre.lt.elems, u \in last.pre.le.elems :
          /\ QLt(monomial_coefficient(l, last.idx), Q0)
          /\ QLt(Q1, monomial_coefficient(u, last.idx))
    /\ Region(Deref(heap, R)) \notin {{}, Assignments(Len(R.gens))}

\* C2: in the substitution case of one_step_elimination (the scan stopped at an
\* equality with a nonzero coefficient on the eliminated coordinate) an
\* assignment x to the remaining coordinates satisfies the returned store iff
\* x, extended by the value of the coordinate that solves that equality,
\* satisfies the original store; and no constraint of the store built from the
\* substituted constraints has a nonzero coefficient on the coordinate.
C2_SubstitutionProjection ==
    (last.op = "one_step_elimination" /\ err = "none" /\ last.pivot # NoPoly) =>
        /\ \A x \in Assignments(Len(R.gens)) :
              Sat(Deref(heap, R), x)
                 <=> Sat(last.pre, InsertAt(x, last.idx, RootAt(last.pivot, last.idx, x)))
        /\ \A p \in Constraints(last.bsa) : monomial_coefficient(p, last.idx) = Q0

C2_Witness ==
    /\ last.op = "one_step_elimination" /\ err = "none" /\ last.pivot # NoPoly
    /\ monomial_coefficient(last.pivot, last.idx) = QInt(2)
    /\ \E p \in last.pre.lt.elems \cup last.pre.le.elems :
          monomial_coefficient(p, last.idx) # Q0
    /\ Region(Deref(heap, R)) \notin {{}, Assignments(Len(R.gens))}

\* the constraint kinds of a store, empty or not
IsCanonicalInfeasible(sv) ==
    /\ sv.le.elems = {RingConst(Len(sv.gens), Q1)}
    /\ sv.eq.elems = {} /\ sv.lt.elems = {}

\* a constant constraint of sv that no point satisfies
ViolatedConstants(sv) ==
    {p \in sv.eq.elems : IsConstant(p) /\ p.const # Q0}
    \cup {p \in sv.lt.elems : IsConstant(p) /\ QLe(Q0, p.const)}
    \cup {p \in sv.le.elems : IsConstant(p) /\ QLt(Q0, p.const)}

\* C6 as claimed: a store returned by one_step_elimination either stores no
\* constant constraint or is exactly the canonical infeasible store {1 <= 0}.
C6_Original ==
    (last.op = "one_step_elimination" /\ err = "none") =>
        \/ \A p \in Constraints(Deref(heap, R)) : ~IsConstant(p)
        \/ IsCanonicalInfeasible(Deref(heap, R))

\* the constraints one_step_elimination computes from the store pre, before
\* the intermediate store is built
NewConstraints(pre, pivot, i) ==
    IF pivot = NoPoly THEN FourierMotzkin(pre, i) ELSE Substitution(pre, pivot, i)

\* C6 as amended: a store returned by one_step_elimination holds, kind by kind
\* and in Python sets, exactly the computed constraints rewritten over the
\* reduced ring, constants included: the equality used for the substitution is
\* stored as the constant 0, and a violated constant result is stored as it is
\* beside the other constraints, the store then having an empty region.
C6_ResultKeepsConstants ==
    (last.op = "one_step_elimination" /\ err = "none") =>
        LET res == Deref(heap, R)
            new == NewConstraints(last.pre, last.pivot, last.idx)
        IN  /\ res.eq = PySet({ApplyMap(p, last.idx) : p \in new.eq})
            /\ res.lt = PySet({ApplyMap(p, last.idx) : p \in new.lt})
            /\ res.le = PySet({ApplyMap(p, last.idx) : p \in new.le})
            /\ last.pivot # NoPoly => RingConst(Len(res.gens), Q0) \in res.eq.elems
            /\ ViolatedConstants(res) # {} => Region(res) = {}

C6_Witness ==
    /\ last.op = "one_step_elimination" /\ err = "none"
    /\ ViolatedConstants(Deref(heap, R)) # {}
    /\ RingConst(Len(R.gens), Q0) \in Deref(heap, R).eq.elems
    /\ \E p \in Constraints(Deref(heap, R)) : ~IsConstant(p)

\* --------------------------------------- specification: coordinate_projection
\* generators are named by their position in the ring first built; ProjVars
\* names no generator
ProjGens == [j \in 1..ProjVars |-> j - 1]
ProjPool == {RingPoly(f, k) : f \in [1..ProjVars -> {-1, 2}], k \in {0, 1}}
ProjEqPool == {p \in ProjPool : p.const = Q0}
CoordinateLists == UNION {[1..m -> 0..ProjVars] : m \in 0..MaxTargets}

InitProj ==
    /\ \E eq \in UpTo1(ProjEqPool), lt \in UpTo1(ProjEqPool), le \in UpTo2(ProjPool) :
          /\ Cardinality(eq) + Cardinality(lt) + Cardinality(le) <= MaxCons
          /\ LET n == NewInstance([id \in Ids |-> PySet({})], 0,
                                  BSA_init(ProjGens, eq, lt, le, SomeOrder(eq),
                                           SomeOrder(lt), SomeOrder(le)).store)
             IN  heap = n.heap /\ S = n.ref
    /\ R = NoRef
    /\ err = "none"
    /\ last = NoCall
    /\ ncalls = 0 /\ nadds = 0

\* one call per store drawn
NextProj == \E cs \in CoordinateLists : last.op = "none" /\ CoordinateProjection(cs)

SpecProj == InitProj /\ [][NextProj]_vars

\* the list names generators of sv only, each at most once
DistinctTargets(sv, cs) ==
    /\ \A k \in 1..Len(cs) : IndexOf(sv.gens, cs[k]) # -1
    /\ \A k, l \in 1..Len(cs) : cs[k] = cs[l] => k = l

Reverse(cs) == [k \in 1..Len(cs) |-> cs[Len(cs) + 1 - k]]

\* the orderings of the list cs
Orderings(cs) ==
    {[k \in 1..Len(cs) |-> cs[f[k]]] : f \in Orders(1..Len(cs))}

\* C3: for two orderings of the same set of target variables,
\* coordinate_projection returns stores over the same remaining generators
\* with the same region.
C3_ProjectionCommutes ==
    (last.op = "coordinate_projection" /\ err = "none"
        /\ DistinctTargets(last.pre, last.coords)) =>
        \A cs \in Orderings(last.coords) :
            \A o \in coordinate_projection(last.pre, cs) :
                /\ o.err = "none"
                /\ o.res.gens = R.gens
                /\ Region(o.res) = Region(Deref(heap, R))

C3_Witness ==
    /\ last.op = "coordinate_projection" /\ err = "none"
    /\ DistinctTargets(last.pre, last.coords) /\ Len(last.coords) = 2
    /\ last.pre.eq.elems # {} /\ last.pre.lt.elems # {} /\ last.pre.le.elems # {}
    /\ Region(Deref(heap, R)) \notin {{}, Assignments(Len(R.gens))}
    /\ \E o \in coordinate_projection(last.pre, Reverse(last.coords)) :
          Constraints(o.res) # Constraints(Deref(heap, R))

\* the sequence s without the elements of the set t
RECURSIVE Without(_, _)
Without(s, t) ==
    IF s = <<>> THEN <<>>
    ELSE IF Head(s) \in t THEN Without(Tail(s), t)
    ELSE <<Head(s)>> \o Without(Tail(s), t)

Range(s) == {s[k] : k \in 1..Len(s)}

\* C8: for a list of pairwise distinct generators, in any order, the index
\* passed to one_step_elimination at step k is the position of the k-th named
\* target in the ring of the store it is called on, and the result's generators
\* are the original ones without the targets, in their original order.
C8_IndexRebasing ==
    (last.op = "coordinate_projection" /\ DistinctTargets(last.pre, last.coords)) =>
        /\ err = "none"
        /\ Len(last.trace) = Len(last.coords)
        /\ \A k \in 1..Len(last.trace) :
              /\ last.trace[k].index < Len(last.trace[k].gens)
              /\ last.trace[k].gens[last.trace[k].index + 1] = last.coords[k]
        /\ R.gens = Without(last.pre.gens, Range(last.coords))

C8_Witness ==
    /\ last.op = "coordinate_projection" /\ err = "none"
    /\ Len(last.coords) = 2 /\ last.coords[1] < last.coords[2]
    /\ last.trace[2].index = last.coords[2] - 1
    /\ R.gens = Without(last.pre.gens, Range(last.coords))

\* C9 as claimed: a list naming something that is not a generator, or naming
\* a generator twice, fails with the coordinate-not-found error, and a
\* projection that returns has removed only generators the caller named.
C9_TargetValidation ==
    last.op = "coordinate_projection" =>
        /\ ~DistinctTargets(last.pre, last.coords) => err = "ValueError:coordinate"
        /\ err = "none" =>
              \A g \in Range(last.pre.gens) \ Range(R.gens) : g \in Range(last.coords)

\* ------------------------------------------------ specification: __init__
\* inputs of the constructor over n generators: constants of another parent
\* (base ring, sub-ring), a constant and two polynomials of the ring, a
\* polynomial of another parent, one of degree 2, one that does not coerce
OtherConst(n, k) == [RingConst(n, QInt(k)) EXCEPT !.parent = "other"]
FirstGen(n) == IF n = 0 THEN RingConst(0, Q0) ELSE Gen(n, 0)
OneMinusTwice(n) == PSub(RingConst(n, Q1), PScale(FirstGen(n), QInt(2)))
InputPool(n) ==
    {OtherConst(n, k) : k \in {-1, 0, 1}}
    \cup {RingConst(n, Q1), FirstGen(n), OneMinusTwice(n)}
    \cup {[FirstGen(n) EXCEPT !.parent = "other"],
          [FirstGen(n) EXCEPT !.nonlin = TRUE],
          [RingConst(n, Q1) EXCEPT !.parent = "alien"]}

Init0 ==
    /\ heap = [id \in Ids |-> PySet({})]
    /\ S = NoRef
    /\ R = NoRef
    /\ err = "none"
    /\ last = NoCall
    /\ ncalls = 0 /\ nadds = 0

NextInit ==
    /\ last.op = "none"
    /\ \E eq \in UpTo2(InputPool(ElimVars)), lt \in UpTo2(InputPool(ElimVars)),
          le \in UpTo2(InputPool(ElimVars)) :
          /\ Cardinality(eq) + Cardinality(lt) + Cardinality(le) <= MaxCons
          /\ Construct(ElimGens, eq, lt, le)

SpecInit == Init0 /\ [][NextInit]_vars

\* -------------------------------------------- specification: the life cycle
\* what the store is built from, and what add_polynomial_constraint is called
\* with
CtorPool(n) == {OtherConst(n, 1), OtherConst(n, -1), FirstGen(n), OneMinusTwice(n)}
AddPool(n) ==
    {OtherConst(n, 1), OtherConst(n, -1), FirstGen(n),
     [FirstGen(n) EXCEPT !.nonlin = TRUE], [RingConst(n, Q1) EXCEPT !.parent = "alien"]}

\* what add_linear_constraint is called with: a constant with the zero vector, a
\* unit vector (zero again when there is no generator), a vector too long
LinearArgs(n) ==
    {<<ZeroCoef(n), QInt(1)>>, <<ZeroCoef(n), QInt(-1)>>,
     <<FirstGen(n).coef, Q0>>, <<ZeroCoef(n + 1), Q0>>}

Init == Init0

Next ==
    \/ /\ last.op = "none"
       /\ \E eq \in UpTo1(CtorPool(ElimVars)), lt \in UpTo1(CtorPool(ElimVars)),
             le \in UpTo1(CtorPool(ElimVars)) : Construct(ElimGens, eq, lt, le)
    \/ \E tgt \in {"S", "R"} :
          \E lhs \in AddPool(Len(Ref(tgt).gens)), op \in Ops \cup {"ne"} :
              AddPolynomialConstraint(tgt, lhs, op)
    \/ \E tgt \in {"S", "R"} :
          \E a \in LinearArgs(Len(Ref(tgt).gens)), op \in Ops \cup {"ne"} :
              AddLinearConstraint(tgt, a[1], a[2], op)
    \/ \E tgt \in {"S", "R"} :
          \E i \in 0..Len(Ref(tgt).gens) : OneStepElimination(tgt, i)
    \/ \E cs \in UNION {[1..m -> 0..(ElimVars - 1)] : m \in 0..MaxTargets} :
          CoordinateProjection(cs)

Spec == Init /\ [][Next]_vars

\* ------------------------------------------------------------ claims on add
IsAdd == last.op \in {"add_polynomial", "add_linear"}

\* the constraint c op 0 on a constant c fails
ViolatedConst(c, op) ==
    CASE op = "eq" -> c # Q0
      [] op = "lt" -> QLe(Q0, c)
      [] op = "gt" -> QLe(c, Q0)
      [] op = "le" -> QLt(Q0, c)
      [] op = "ge" -> QLt(c, Q0)
      [] OTHER -> FALSE

AddedConst == IF last.op = "add_polynomial" THEN last.lhs.const ELSE last.cst

\* the last call added a violated constant constraint
IsViolatedAdd ==
    \/ /\ last.op = "add_polynomial"
       /\ last.lhs.parent \in {"ring", "other"} /\ ~last.lhs.nonlin /\ IsConstant(last.lhs)
       /\ ViolatedConst(last.lhs.const, last.rel)
    \/ /\ last.op = "add_linear"
       /\ last.vec = ZeroCoef(last.pre.ambient_dim)
       /\ ViolatedConst(last.cst, last.rel)

\* C4 as claimed: adding a violated constant constraint leaves the store in the
\* canonical infeasible form: non-strict set {1}, no equality, no strict
\* inequality.
C4_Original ==
    IsViolatedAdd => err = "none" /\ IsCanonicalInfeasible(Deref(heap, Ref(last.tgt)))

\* C4 as amended: adding a violated constant constraint stores the constant
\* (negated for > and >=) in the collection of its kind and changes nothing else;
\* where that collection is the dict a collapse at construction left, the call
\* raises AttributeError and changes nothing.  Either way the region is empty.
C4_AddKeepsConstant ==
    IsViolatedAdd =>
        LET pre == last.pre
            post == Deref(heap, Ref(last.tgt))
            field == IF last.rel \in {"lt", "gt"} THEN "lt"
                     ELSE IF last.rel = "eq" THEN "eq" ELSE "le"
            stored == RingConst(Len(pre.gens),
                                IF last.rel \in {"gt", "ge"} THEN QNeg(AddedConst)
                                ELSE AddedConst)
        IN  /\ \/ /\ err = "none"
                  /\ pre[field].kind = "set"
                  /\ post = [pre EXCEPT ![field] = PySet(pre[field].elems \cup {stored})]
               \/ /\ err = "AttributeError"
                  /\ pre[field].kind = "dict"
                  /\ post = pre
            /\ Region(post) = {}

C4_Witness ==
    /\ IsViolatedAdd /\ err = "none" /\ last.rel = "gt"
    /\ \E p \in last.pre.eq.elems : ~IsConstant(p)
    /\ ~IsCanonicalInfeasible(Deref(heap, Ref(last.tgt)))

\* ----------------------------------------------------- claims on __init__
\* the inputs of kind field that are constant and fail
ViolatedInputs(ins) ==
    {e \in ins.eq : IsConstant(e) /\ ViolatedConst(e.const, "eq")}
    \cup {e \in ins.lt : IsConstant(e) /\ ViolatedConst(e.const, "lt")}
    \cup {e \in ins.le : IsConstant(e) /\ ViolatedConst(e.const, "le")}

\* inputs the constructor accepts: of degree <= 1, at least one of them in the
\* ring, the others constants of a parent that coerces into it
AcceptableInputs(ins) ==
    LET polys == ins.eq \cup ins.lt \cup ins.le IN
    /\ \E e \in polys : e.parent = "ring" /\ ~IsConstant(e)
    /\ \A e \in polys :
          /\ ~e.nonlin
          /\ e.parent \in {"ring", "other"}
          /\ IsConstant(e) <=> e.parent = "other"

\* C5 as claimed: construction from such inputs succeeds; if an input constant
\* is violated the store is exactly the canonical infeasible store, whatever the
\* other inputs and the order of processing; otherwise the satisfied constants
\* are dropped and every other input is stored in its own kind.
C5_ConstructionNormalization ==
    (last.op = "init" /\ AcceptableInputs(last.ins)) =>
        /\ err = "none"
        /\ IF ViolatedInputs(last.ins) # {}
           THEN IsCanonicalInfeasible(Deref(heap, S))
           ELSE /\ Deref(heap, S).eq.elems = {e \in last.ins.eq : ~IsConstant(e)}
                /\ Deref(heap, S).lt.elems = {e \in last.ins.lt : ~IsConstant(e)}
                /\ Deref(heap, S).le.elems = {e \in last.ins.le : ~IsConstant(e)}

\* ------------------------------------------------- claims on the life cycle
\* the last call was an add or a one-step elimination with valid arguments
ValidCall ==
    \/ /\ last.op = "add_polynomial"
       /\ last.lhs.parent \in {"ring", "other"} /\ ~last.lhs.nonlin /\ last.rel \in Ops
    \/ /\ last.op = "add_linear"
       /\ Len(last.vec) = last.pre.ambient_dim /\ last.rel \in Ops
    \/ /\ last.op = "one_step_elimination"
       /\ last.idx < Len(last.pre.gens)

\* the store the last call left: the target of an add, the result of an
\* elimination
Outcome == IF IsAdd THEN Deref(heap, Ref(last.tgt)) ELSE Deref(heap, R)

\* C7 as claimed: on a store collapsed to {1 <= 0}, an add with valid linear
\* input or an elimination step on a valid index completes without error and
\* leaves, or returns, a store with an empty region.
C7_InfeasibleAbsorbing ==
    (ValidCall /\ IsCanonicalInfeasible(last.pre)) =>
        err = "none" /\ Region(Outcome) = {}

====
